---- MODULE Spec2Model ----
(***************************************************************************)
(* A model of client/src/lib/timetable-generator.ts: generateTimetable     *)
(* (constraint index, course ordering, contiguous-block allocation,        *)
(* scattered fallback) and the values it returns.                          *)
(*                                                                         *)
(* Strings the code takes apart (time-slot labels, the timeSlot payload of *)
(* a constraint) are sequences of one-character strings, so that split,    *)
(* trim and parseInt are computed character by character.                  *)
(***************************************************************************)
EXTENDS Integers, Sequences, FiniteSets, TLC

VARIABLES
    courses,                \* options.courses
    classrooms,             \* options.classrooms
    constraints,            \* options.constraints
    pc,                     \* position in generateTimetable
    instructorUnavailable,  \* Record<number, ClassSlot[]>
    roomUnavailable,        \* Record<number, ClassSlot[]>
    courseConflicts,        \* Record<number, number[]>
    sortedCourses,          \* courses, most constrained first
    instructorAssignments,  \* Record<number, ClassSlot[]>
    classroomAssignments,   \* Record<number, ClassSlot[]>
    courseAssignments,      \* Record<number, ClassSlot[]>
    scheduledClasses,       \* the rows emitted so far
    ci,                     \* index in sortedCourses of the course of the for loop
    shuffledDays,           \* the day order drawn for the current course
    ri,                     \* index in suitableRooms of the contiguous phase
    di,                     \* index in shuffledDays of the contiguous phase
    warnings,               \* what console.warn has been given
    returned,               \* the value the promise resolves to
    run,                    \* 1 for the first call, 2 for a repeated call
    firstReturned,          \* the value the first call resolved to
    placedBy,               \* history: the phase that emitted each row
    audited,                \* the rows checkConflicts is called with
    conflicts               \* the value checkConflicts returns

vars == <<courses, classrooms, constraints, pc, instructorUnavailable,
          roomUnavailable, courseConflicts, sortedCourses,
          instructorAssignments, classroomAssignments, courseAssignments,
          scheduledClasses, ci, shuffledDays, ri, di, warnings, returned,
          run, firstReturned, placedBy, audited, conflicts>>

(***************************************************************************)
(* Bounds of the model                                                     *)
(***************************************************************************)
MaxCourses == 2
MaxRooms == 2
MaxConstraints == 2
MaxCapacity == 2
MaxInstructors == 2
MaxFreeCourses == 3
MaxAuditRows == 3
MaxAuditIds == 2
MaxOrderConstraints == 4

(***************************************************************************)
(* The grid: weekDays and timeSlots of @shared/schema, here two days of    *)
(* three slots each, labelled "HH:MM-HH:MM", with a break before the last. *)
(***************************************************************************)
weekDays == <<"Mon", "Tue">>

timeSlots ==
    << <<"0","9",":","0","0","-","1","0",":","0","0">>,
       <<"1","0",":","0","0","-","1","1",":","0","0">>,
       <<"1","1",":","1","5","-","1","2",":","1","5">> >>

timetableId == 1

(***************************************************************************)
(* String functions of the language, on sequences of characters            *)
(***************************************************************************)
DigitVal ==
    ("0" :> 0) @@ ("1" :> 1) @@ ("2" :> 2) @@ ("3" :> 3) @@ ("4" :> 4) @@
    ("5" :> 5) @@ ("6" :> 6) @@ ("7" :> 7) @@ ("8" :> 8) @@ ("9" :> 9)

IsDigit(c) == c \in DOMAIN DigitVal

\* The value parseInt gives for a string with no leading number.  No string
\* of the model parses to this number.
NaN == -1000

RECURSIVE TrimStart(_)
TrimStart(s) ==
    IF s # <<>> /\ Head(s) = " " THEN TrimStart(Tail(s)) ELSE s

RECURSIVE TrimEnd(_)
TrimEnd(s) ==
    IF s # <<>> /\ s[Len(s)] = " " THEN TrimEnd(SubSeq(s, 1, Len(s) - 1)) ELSE s

\* String.prototype.trim
Trim(s) == TrimEnd(TrimStart(s))

\* String.prototype.split with a one-character separator
RECURSIVE Split(_, _)
Split(s, sep) ==
    IF \A i \in 1..Len(s) : s[i] # sep
    THEN <<s>>
    ELSE LET i == CHOOSE k \in 1..Len(s) :
                      s[k] = sep /\ \A j \in 1..(k - 1) : s[j] # sep
         IN  <<SubSeq(s, 1, i - 1)>> \o Split(SubSeq(s, i + 1, Len(s)), sep)

\* The number the leading digits of s spell, after acc
RECURSIVE LeadingDigits(_, _)
LeadingDigits(s, acc) ==
    IF s # <<>> /\ IsDigit(Head(s))
    THEN LeadingDigits(Tail(s), 10 * acc + DigitVal[Head(s)])
    ELSE acc

\* parseInt(s): leading white space is skipped, then an optional sign, then
\* the longest run of decimal digits; NaN when there is no digit there.
\* (The "0x" prefix of hexadecimal numbers is left out.)
ParseInt(s) ==
    LET t    == TrimStart(s)
        neg  == t # <<>> /\ Head(t) = "-"
        body == IF t # <<>> /\ Head(t) \in {"-", "+"} THEN Tail(t) ELSE t
    IN  IF body = <<>> \/ ~IsDigit(Head(body))
        THEN NaN
        ELSE IF neg THEN 0 - LeadingDigits(body, 0) ELSE LeadingDigits(body, 0)

(***************************************************************************)
(* Lines 34-40: allSlots, day by day                                       *)
(***************************************************************************)
allSlots ==
    [k \in 1..(Len(weekDays) * Len(timeSlots)) |->
        [day      |-> weekDays[((k - 1) \div Len(timeSlots)) + 1],
         timeSlot |-> timeSlots[((k - 1) % Len(timeSlots)) + 1]]]

\* list.some(s => s.day === day && s.timeSlot === timeSlot)
SomeSlot(list, day, timeSlot) ==
    \E i \in 1..Len(list) : list[i].day = day /\ list[i].timeSlot = timeSlot

\* if (!map[key]) map[key] = []; map[key].push(value)
Push(map, key, value) ==
    IF key \in DOMAIN map
    THEN [map EXCEPT ![key] = Append(@, value)]
    ELSE map @@ (key :> <<value>>)

\* map[key]?.length || 0
LengthOf(map, key) == IF key \in DOMAIN map THEN Len(map[key]) ELSE 0

\* The empty Record
EmptyMap == <<>>

(***************************************************************************)
(* Lines 53-84: the constraint index                                       *)
(***************************************************************************)
\* One iteration of the loop over the constraints, without line 82: a
\* conflict is entered under the course the record names first only
ProcessConstraintOneWay(idx, constraint) ==
    LET slot == [day |-> constraint.day, timeSlot |-> constraint.timeSlot]
    IN  IF constraint.type = "instructor_unavailable"
        THEN [idx EXCEPT !.instructorUnavailable = Push(@, constraint.entityId, slot)]
        ELSE IF constraint.type = "room_unavailable"
        THEN [idx EXCEPT !.roomUnavailable = Push(@, constraint.entityId, slot)]
        ELSE IF constraint.type = "course_conflict"
        THEN LET courseId            == constraint.entityId
                 conflictingCourseId == ParseInt(constraint.timeSlot)
                 c0 == idx.courseConflicts
                 c1 == IF courseId \in DOMAIN c0
                       THEN c0 ELSE c0 @@ (courseId :> <<>>)
                 c2 == IF conflictingCourseId \in DOMAIN c1
                       THEN c1 ELSE c1 @@ (conflictingCourseId :> <<>>)
                 c3 == [c2 EXCEPT ![courseId] = Append(@, conflictingCourseId)]
             IN  [idx EXCEPT !.courseConflicts = c3]
        ELSE idx

\* One iteration of the loop over the constraints
ProcessConstraint(idx, constraint) ==
    LET slot == [day |-> constraint.day, timeSlot |-> constraint.timeSlot]
    IN  IF constraint.type = "instructor_unavailable"
        THEN [idx EXCEPT !.instructorUnavailable = Push(@, constraint.entityId, slot)]
        ELSE IF constraint.type = "room_unavailable"
        THEN [idx EXCEPT !.roomUnavailable = Push(@, constraint.entityId, slot)]
        ELSE IF constraint.type = "course_conflict"
        THEN LET courseId            == constraint.entityId
                 conflictingCourseId == ParseInt(constraint.timeSlot)
                 c0 == idx.courseConflicts
                 c1 == IF courseId \in DOMAIN c0
                       THEN c0 ELSE c0 @@ (courseId :> <<>>)
                 c2 == IF conflictingCourseId \in DOMAIN c1
                       THEN c1 ELSE c1 @@ (conflictingCourseId :> <<>>)
                 c3 == [c2 EXCEPT ![courseId] = Append(@, conflictingCourseId)]
                 c4 == [c3 EXCEPT ![conflictingCourseId] = Append(@, courseId)]
             IN  [idx EXCEPT !.courseConflicts = c4]
        ELSE idx

RECURSIVE ProcessConstraints(_, _)
ProcessConstraints(idx, cs) ==
    IF cs = <<>> THEN idx
    ELSE ProcessConstraints(ProcessConstraint(idx, Head(cs)), Tail(cs))

EmptyIndex ==
    [instructorUnavailable |-> EmptyMap,
     roomUnavailable       |-> EmptyMap,
     courseConflicts       |-> EmptyMap]

(***************************************************************************)
(* Lines 86-93: the order of the courses.  Array.prototype.sort with a     *)
(* consistent comparator is a stable sort; compare(a, b) > 0 puts b before *)
(* a.                                                                      *)
(***************************************************************************)
\* Lines 88-91: the number of constraints the comparator counts for a course
ConstraintCount(idx, course) ==
    LengthOf(idx.courseConflicts, course.id)
    + LengthOf(idx.instructorUnavailable, course.instructorId)

\* Lines 87-92: the comparator
CompareCourses(idx, a, b) == ConstraintCount(idx, b) - ConstraintCount(idx, a)

RECURSIVE InsertCourse(_, _, _)
InsertCourse(idx, sorted, x) ==
    IF sorted = <<>> THEN <<x>>
    ELSE IF CompareCourses(idx, sorted[Len(sorted)], x) > 0
         THEN Append(InsertCourse(idx, SubSeq(sorted, 1, Len(sorted) - 1), x),
                     sorted[Len(sorted)])
         ELSE Append(sorted, x)

\* Lines 87-93: [...courses].sort(...)
RECURSIVE SortCoursesBy(_, _)
SortCoursesBy(idx, cs) ==
    IF cs = <<>> THEN <<>>
    ELSE InsertCourse(idx, SortCoursesBy(idx, SubSeq(cs, 1, Len(cs) - 1)),
                      cs[Len(cs)])

(***************************************************************************)
(* Lines 96-131: isSlotAvailable, on the index and the assignments a       *)
(***************************************************************************)
\* Lines 101-104
InstructorUnavailableAt(idx, course, slot) ==
    /\ course.instructorId \in DOMAIN idx.instructorUnavailable
    /\ SomeSlot(idx.instructorUnavailable[course.instructorId], slot.day, slot.timeSlot)

\* Lines 105-108 finding no assignment of the instructor
InstructorBusyNever(a, course, slot) == FALSE

\* Lines 105-108
InstructorBusyAt(a, course, slot) ==
    /\ course.instructorId \in DOMAIN a.instructorAssignments
    /\ SomeSlot(a.instructorAssignments[course.instructorId], slot.day, slot.timeSlot)

\* Lines 111-114
RoomUnavailableAt(idx, slot, roomId) ==
    /\ roomId \in DOMAIN idx.roomUnavailable
    /\ SomeSlot(idx.roomUnavailable[roomId], slot.day, slot.timeSlot)

\* Lines 115-118
RoomBusyAt(a, slot, roomId) ==
    /\ roomId \in DOMAIN a.classroomAssignments
    /\ SomeSlot(a.classroomAssignments[roomId], slot.day, slot.timeSlot)

\* Lines 121-128
ConflictingCourseAt(idx, a, course, slot) ==
    /\ course.id \in DOMAIN idx.courseConflicts
    /\ \E k \in 1..Len(idx.courseConflicts[course.id]) :
          LET conflictingCourseId == idx.courseConflicts[course.id][k]
          IN  /\ conflictingCourseId \in DOMAIN a.courseAssignments
              /\ SomeSlot(a.courseAssignments[conflictingCourseId],
                          slot.day, slot.timeSlot)

\* isSlotAvailable without the check of the instructor's assignments
isSlotAvailableNoInstructorCheck(idx, a, course, slot, roomId) ==
    /\ ~InstructorUnavailableAt(idx, course, slot)
    /\ ~RoomUnavailableAt(idx, slot, roomId)
    /\ ~RoomBusyAt(a, slot, roomId)
    /\ ~ConflictingCourseAt(idx, a, course, slot)

\* isSlotAvailable without the check of the room's assignments
isSlotAvailableNoRoomCheck(idx, a, course, slot, roomId) ==
    /\ ~InstructorUnavailableAt(idx, course, slot)
    /\ ~InstructorBusyAt(a, course, slot)
    /\ ~RoomUnavailableAt(idx, slot, roomId)
    /\ ~ConflictingCourseAt(idx, a, course, slot)

\* isSlotAvailable looking at the unavailability constraints only, and at
\* none of the assignments
isSlotAvailableConstraintsOnly(idx, a, course, slot, roomId) ==
    /\ ~InstructorUnavailableAt(idx, course, slot)
    /\ ~RoomUnavailableAt(idx, slot, roomId)

isSlotAvailable(idx, a, course, slot, roomId) ==
    /\ ~InstructorUnavailableAt(idx, course, slot)
    /\ ~InstructorBusyAt(a, course, slot)
    /\ ~RoomUnavailableAt(idx, slot, roomId)
    /\ ~RoomBusyAt(a, slot, roomId)
    /\ ~ConflictingCourseAt(idx, a, course, slot)

\* Line 138: the comparator of the rooms
CompareRooms(a, b) == a.capacity - b.capacity

RECURSIVE InsertRoom(_, _)
InsertRoom(sorted, x) ==
    IF sorted = <<>> THEN <<x>>
    ELSE IF CompareRooms(sorted[Len(sorted)], x) > 0
         THEN Append(InsertRoom(SubSeq(sorted, 1, Len(sorted) - 1), x),
                     sorted[Len(sorted)])
         ELSE Append(sorted, x)

\* Line 138 left out: the rooms stay in the order of the input
RoomsInInputOrder(rs) == rs

RECURSIVE SortRooms(_)
SortRooms(rs) ==
    IF rs = <<>> THEN <<>>
    ELSE InsertRoom(SortRooms(SubSeq(rs, 1, Len(rs) - 1)), rs[Len(rs)])

\* The filter of the rooms letting every room through
RoomFitsAlways(room, course) == TRUE

\* Line 137: the filter of the rooms
RoomFits(room, course) == room.capacity >= course.capacity

\* Lines 136-138
SuitableRooms(rooms, course) ==
    SortRooms(SelectSeq(rooms, LAMBDA room : RoomFits(room, course)))

\* Line 146
SlotsNeeded(course) ==
    IF course.credits >= 4 THEN 3 ELSE IF course.credits >= 3 THEN 2 ELSE 1

\* The orders a sort with the comparator () => Math.random() - 0.5 can leave
\* an array in: its permutations
Shuffles(seq) ==
    IF seq = <<>> THEN {<<>>}
    ELSE {[i \in 1..Len(seq) |-> seq[p[i]]] : p \in Permutations(1..Len(seq))}

\* Lines 163-165: Array.from({ length: timeSlots.length - slotsNeeded + 1 },
\* (_, i) => i); a length below 0 gives the empty array
StartIndices(slotsNeeded) ==
    LET n == Len(timeSlots) - slotsNeeded + 1
    IN  IF n <= 0 THEN <<>> ELSE [i \in 1..n |-> i - 1]

\* Lines 170-177 looking at the first slot of the block only
AllAvailableFirstOnly(idx, a, course, room, day, startIdx, slotsNeeded) ==
    isSlotAvailable(idx, a, course,
                    [day |-> day, timeSlot |-> timeSlots[startIdx + 1]], room.id)

\* Lines 170-177: all the slots of the block at startIdx (from 0) are available
AllAvailable(idx, a, course, room, day, startIdx, slotsNeeded) ==
    \A j \in 0..(slotsNeeded - 1) :
        isSlotAvailable(idx, a, course,
                        [day |-> day, timeSlot |-> timeSlots[startIdx + j + 1]],
                        room.id)

\* Lines 185-198 and 240-253 without lines 190-193: the slot does not enter
\* the classroom's list
OccupyNoClassroom(a, course, room, slot) ==
    [a EXCEPT
        !.instructorAssignments = Push(@, course.instructorId, slot),
        !.courseAssignments     = Push(@, course.id, slot)]

\* Lines 185-198 and 240-253: the slot enters the three occupancy maps
Occupy(a, course, room, slot) ==
    [a EXCEPT
        !.instructorAssignments = Push(@, course.instructorId, slot),
        !.classroomAssignments  = Push(@, room.id, slot),
        !.courseAssignments     = Push(@, course.id, slot)]

\* Lines 206-215 and 258-267
ScheduledClass(course, room, day, startTime, endTime) ==
    [id           |-> 0,
     courseId     |-> course.id,
     instructorId |-> course.instructorId,
     classroomId  |-> room.id,
     day          |-> day,
     startTime    |-> startTime,
     endTime      |-> endTime,
     timetableId  |-> timetableId]

\* Lines 181-216 with every row ending at its own slot's end time
AssignBlockSlotOwnEnd(a, course, room, day, startIdx, j, slotsNeeded) ==
    LET slot == [day |-> day, timeSlot |-> timeSlots[startIdx + j + 1]]
        b    == [a EXCEPT
                    !.instructorAssignments = Push(@, course.instructorId, slot),
                    !.classroomAssignments  = Push(@, room.id, slot),
                    !.courseAssignments     = Push(@, course.id, slot)]
    IN  [b EXCEPT !.scheduledClasses =
            Append(@, [id           |-> 0,
                       courseId     |-> course.id,
                       instructorId |-> course.instructorId,
                       classroomId  |-> room.id,
                       day          |-> slot.day,
                       startTime    |-> Trim(Split(slot.timeSlot, "-")[1]),
                       endTime      |-> Trim(Split(slot.timeSlot, "-")[2]),
                       timetableId  |-> timetableId])]

\* Lines 181-216: iteration j (from 0) of the loop that assigns a block
AssignBlockSlot(a, course, room, day, startIdx, j, slotsNeeded) ==
    LET slot      == [day |-> day, timeSlot |-> timeSlots[startIdx + j + 1]]
        startTime == Trim(Split(slot.timeSlot, "-")[1])
        endTime   == IF j = slotsNeeded - 1
                     THEN Trim(Split(slot.timeSlot, "-")[2])
                     ELSE Trim(Split(timeSlots[startIdx + j + 2], "-")[1])
        b         == Occupy(a, course, room, slot)
    IN  [b EXCEPT !.scheduledClasses =
            Append(@, ScheduledClass(course, room, slot.day, startTime, endTime))]

RECURSIVE AssignBlockFrom(_, _, _, _, _, _, _)
AssignBlockFrom(a, course, room, day, startIdx, j, slotsNeeded) ==
    IF j >= slotsNeeded THEN a
    ELSE AssignBlockFrom(
             AssignBlockSlot(a, course, room, day, startIdx, j, slotsNeeded),
             course, room, day, startIdx, j + 1, slotsNeeded)

AssignBlock(a, course, room, day, startIdx, slotsNeeded) ==
    AssignBlockFrom(a, course, room, day, startIdx, 0, slotsNeeded)

\* Lines 238-270: the body of the scattered loop for one available slot
AssignSingleSlot(a, course, room, slot) ==
    LET parts == Split(slot.timeSlot, "-")
        b     == Occupy(a, course, room, slot)
    IN  [b EXCEPT !.scheduledClasses =
            Append(@, ScheduledClass(course, room, slot.day,
                                     Trim(parts[1]), Trim(parts[2])))]

\* Lines 235-271 without the break of line 236: the loop goes on after
\* slotsNeeded slots are assigned
RECURSIVE ScatterSlotsNoBreak(_, _, _, _, _, _, _)
ScatterSlotsNoBreak(idx, s, course, room, shuffledSlots, k, slotsNeeded) ==
    IF k > Len(shuffledSlots) THEN s
    ELSE IF isSlotAvailable(idx, s.a, course, shuffledSlots[k], room.id)
    THEN ScatterSlotsNoBreak(idx,
             [a             |-> AssignSingleSlot(s.a, course, room, shuffledSlots[k]),
              assignedSlots |-> s.assignedSlots + 1],
             course, room, shuffledSlots, k + 1, slotsNeeded)
    ELSE ScatterSlotsNoBreak(idx, s, course, room, shuffledSlots, k + 1, slotsNeeded)

\* Lines 235-271 with the break of line 236 one slot early
RECURSIVE ScatterSlotsOneShort(_, _, _, _, _, _, _)
ScatterSlotsOneShort(idx, s, course, room, shuffledSlots, k, slotsNeeded) ==
    IF k > Len(shuffledSlots) \/ s.assignedSlots >= slotsNeeded - 1 THEN s
    ELSE IF isSlotAvailable(idx, s.a, course, shuffledSlots[k], room.id)
    THEN ScatterSlotsOneShort(idx,
             [a             |-> AssignSingleSlot(s.a, course, room, shuffledSlots[k]),
              assignedSlots |-> s.assignedSlots + 1],
             course, room, shuffledSlots, k + 1, slotsNeeded)
    ELSE ScatterSlotsOneShort(idx, s, course, room, shuffledSlots, k + 1, slotsNeeded)

\* Lines 235-271: the loop over shuffledSlots from position k, in one room;
\* s is [a, assignedSlots]
RECURSIVE ScatterSlots(_, _, _, _, _, _, _)
ScatterSlots(idx, s, course, room, shuffledSlots, k, slotsNeeded) ==
    IF k > Len(shuffledSlots) \/ s.assignedSlots >= slotsNeeded THEN s
    ELSE IF isSlotAvailable(idx, s.a, course, shuffledSlots[k], room.id)
    THEN ScatterSlots(idx,
             [a             |-> AssignSingleSlot(s.a, course, room, shuffledSlots[k]),
              assignedSlots |-> s.assignedSlots + 1],
             course, room, shuffledSlots, k + 1, slotsNeeded)
    ELSE ScatterSlots(idx, s, course, room, shuffledSlots, k + 1, slotsNeeded)

\* Lines 232-272 stopping after the first suitable room
ScatterRoomsFirstOnly(idx, s, course, rooms, r, shuffledSlots, slotsNeeded) ==
    IF rooms = <<>> THEN s
    ELSE ScatterSlots(idx, s, course, rooms[1], shuffledSlots, 1, slotsNeeded)

\* Lines 232-272: the loop over suitableRooms from position r
RECURSIVE ScatterRooms(_, _, _, _, _, _, _)
ScatterRooms(idx, s, course, rooms, r, shuffledSlots, slotsNeeded) ==
    IF r > Len(rooms) \/ s.assignedSlots >= slotsNeeded THEN s
    ELSE ScatterRooms(idx,
             ScatterSlots(idx, s, course, rooms[r], shuffledSlots, 1, slotsNeeded),
             course, rooms, r + 1, shuffledSlots, slotsNeeded)

(***************************************************************************)
(* Lines 286-360: checkConflicts                                           *)
(***************************************************************************)
\* Lines 300 and 325: `${day}-${startTime}-${endTime}`
SlotKey(scheduledClass) ==
    <<scheduledClass.day, "-">> \o scheduledClass.startTime \o <<"-">>
    \o scheduledClass.endTime

\* Lines 302-310 and 327-335: slots[id][key] is created when missing and the
\* row is pushed onto it
PushClass(slots, id, key, scheduledClass) ==
    LET s1 == IF id \in DOMAIN slots THEN slots ELSE slots @@ (id :> EmptyMap)
    IN  [s1 EXCEPT ![id] = Push(@, key, scheduledClass)]

\* Lines 298-318 and 323-343: one iteration of a loop over the rows.  st is
\* [slots, found]; an entry of found stands for { id, classes: slots[id][key] },
\* whose classes is the array of the group itself and not a copy of it.
GroupClass(st, id, scheduledClass) ==
    LET key   == SlotKey(scheduledClass)
        slots == PushClass(st.slots, id, key, scheduledClass)
    IN  [slots |-> slots,
         found |-> IF Len(slots[id][key]) > 1
                   THEN Append(st.found, [id |-> id, key |-> key])
                   ELSE st.found]

\* Lines 296-318: the loop over the rows by instructor, from row k
RECURSIVE GroupByInstructor(_, _, _)
GroupByInstructor(st, rows, k) ==
    IF k > Len(rows) THEN st
    ELSE GroupByInstructor(GroupClass(st, rows[k].instructorId, rows[k]), rows, k + 1)

\* Lines 321-343: the loop over the rows by classroom, from row k
RECURSIVE GroupByClassroom(_, _, _)
GroupByClassroom(st, rows, k) ==
    IF k > Len(rows) THEN st
    ELSE GroupByClassroom(GroupClass(st, rows[k].classroomId, rows[k]), rows, k + 1)

\* The entries pushed, with the rows their classes array holds at the return
ConflictEntries(st, idField) ==
    [e \in 1..Len(st.found) |->
        (idField :> st.found[e].id)
        @@ ("classes" :> st.slots[st.found[e].id][st.found[e].key])]

\* Lines 345-353: the loop over the rows for the students has an empty body
StudentConflictsOf(rows) == <<>>

\* checkConflicts with a student conflict for every row it is given
checkConflictsStudentPerRow(rows) ==
    [instructorConflicts |-> <<>>,
     classroomConflicts  |-> <<>>,
     studentConflicts    |-> [k \in 1..Len(rows) |-> [classes |-> <<rows[k]>>]]]

\* Lines 286-360
checkConflicts(rows) ==
    LET none == [slots |-> EmptyMap, found |-> <<>>]
    IN  [instructorConflicts |->
             ConflictEntries(GroupByInstructor(none, rows, 1), "instructorId"),
         classroomConflicts  |->
             ConflictEntries(GroupByClassroom(none, rows, 1), "classroomId"),
         studentConflicts    |-> StudentConflictsOf(rows)]

\* The value of conflicts before checkConflicts has returned
NotCalled == "not called"

(***************************************************************************)
(* The inputs                                                              *)
(***************************************************************************)
Credits == {2, 3, 4}

Course(i, credits, capacity, instructorId) ==
    [id |-> i, code |-> <<"CS", i>>, credits |-> credits,
     capacity |-> capacity, instructorId |-> instructorId]

CourseLists(n) ==
    {[i \in 1..n |-> Course(i, f[i][1], f[i][2], f[i][3])] :
        f \in [1..n -> Credits \X (1..MaxCapacity) \X (1..MaxInstructors)]}

RoomLists(n) ==
    {[i \in 1..n |-> [id |-> i, capacity |-> f[i]]] : f \in [1..n -> 1..MaxCapacity]}

Labels == {timeSlots[i] : i \in 1..Len(timeSlots)}
Days   == {weekDays[i] : i \in 1..Len(weekDays)}

\* The decimal string of a course id below 10
IdString(i) == <<CHOOSE c \in DOMAIN DigitVal : DigitVal[c] = i>>

Unavailable(type, ids, days, labels) ==
    {[type |-> type, entityId |-> e, day |-> d, timeSlot |-> t] :
        e \in ids, d \in days, t \in labels}

\* course_conflict records: the timeSlot field holds the other course's id;
\* <<"x">> is a payload that is no number
Conflicts(ids, payloads) ==
    {[type |-> "course_conflict", entityId |-> e, day |-> weekDays[1],
      timeSlot |-> p] : e \in ids, p \in payloads}

ListsOver(S, n) == UNION {[1..k -> S] : k \in 0..n}

(***************************************************************************)
(* The state machine                                                       *)
(***************************************************************************)
Idx ==
    [instructorUnavailable |-> instructorUnavailable,
     roomUnavailable       |-> roomUnavailable,
     courseConflicts       |-> courseConflicts]

Assignments ==
    [instructorAssignments |-> instructorAssignments,
     classroomAssignments  |-> classroomAssignments,
     courseAssignments     |-> courseAssignments,
     scheduledClasses      |-> scheduledClasses]

\* Lines 42-51: the state a call starts in
Fresh ==
    /\ pc = "index"
    /\ instructorUnavailable = EmptyMap
    /\ roomUnavailable = EmptyMap
    /\ courseConflicts = EmptyMap
    /\ sortedCourses = <<>>
    /\ instructorAssignments = EmptyMap
    /\ classroomAssignments = EmptyMap
    /\ courseAssignments = EmptyMap
    /\ scheduledClasses = <<>>
    /\ ci = 0
    /\ shuffledDays = <<>>
    /\ ri = 0
    /\ di = 0
    /\ warnings = <<>>
    /\ returned = <<>>
    /\ placedBy = <<>>

InitFrom(courseLists, roomLists, constraintLists) ==
    /\ courses \in courseLists
    /\ classrooms \in roomLists
    /\ constraints \in constraintLists
    /\ Fresh
    /\ run = 1
    /\ firstReturned = <<>>
    /\ audited = <<>>
    /\ conflicts = NotCalled

inputVars == <<courses, classrooms, constraints>>
indexVars == <<instructorUnavailable, roomUnavailable, courseConflicts>>
assignVars == <<instructorAssignments, classroomAssignments, courseAssignments,
                scheduledClasses, placedBy>>
loopVars == <<shuffledDays, ri, di>>
runVars == <<run, firstReturned>>
auditVars == <<audited, conflicts>>

\* The assignments become a; the rows it adds are noted as emitted by phase
SetAssignments(a, phase) ==
    /\ instructorAssignments' = a.instructorAssignments
    /\ classroomAssignments' = a.classroomAssignments
    /\ courseAssignments' = a.courseAssignments
    /\ scheduledClasses' = a.scheduledClasses
    /\ placedBy' = placedBy \o [k \in 1..(Len(a.scheduledClasses) - Len(scheduledClasses))
                                |-> phase]

\* Lines 53-84
BuildIndex ==
    /\ pc = "index"
    /\ LET idx == ProcessConstraints(EmptyIndex, constraints)
       IN  /\ instructorUnavailable' = idx.instructorUnavailable
           /\ roomUnavailable' = idx.roomUnavailable
           /\ courseConflicts' = idx.courseConflicts
    /\ pc' = "sort"
    /\ UNCHANGED <<inputVars, sortedCourses, assignVars, ci, loopVars, warnings,
                   returned, runVars, auditVars>>

\* Lines 86-93
SortCourses ==
    /\ pc = "sort"
    /\ sortedCourses' = SortCoursesBy(Idx, courses)
    /\ ci' = 1
    /\ pc' = "course"
    /\ UNCHANGED <<inputVars, indexVars, assignVars, loopVars, warnings,
                   returned, runVars, auditVars>>

\* Lines 134-143: a course with no suitable room is skipped with a warning
SkipCourse ==
    /\ pc = "course"
    /\ ci <= Len(sortedCourses)
    /\ LET course == sortedCourses[ci]
       IN  /\ SuitableRooms(classrooms, course) = <<>>
           /\ warnings' = Append(warnings,
                  [text |-> "No suitable rooms for course", code |-> course.code])
    /\ ci' = ci + 1
    /\ UNCHANGED <<inputVars, pc, indexVars, sortedCourses, assignVars, loopVars,
                   returned, runVars, auditVars>>

\* Lines 134-153: a course with suitable rooms enters the contiguous phase
\* with a fresh order of the days
StartCourse ==
    /\ pc = "course"
    /\ ci <= Len(sortedCourses)
    /\ SuitableRooms(classrooms, sortedCourses[ci]) # <<>>
    /\ shuffledDays' \in Shuffles(weekDays)
    /\ ri' = 1
    /\ di' = 1
    /\ pc' = "contiguous"
    /\ UNCHANGED <<inputVars, indexVars, sortedCourses, assignVars, ci, warnings,
                   returned, runVars, auditVars>>

\* The loop of lines 168-221 giving up after the first start index of the
\* order
FirstStartOnly(idx, a, course, room, day, slotIndices, k, slotsNeeded) ==
    IF slotIndices # <<>>
       /\ AllAvailable(idx, a, course, room, day, slotIndices[1], slotsNeeded)
    THEN slotIndices[1]
    ELSE 0 - 1

\* The first start index of the order all of whose slots are available, or
\* 0 - 1 when the loop of lines 168-221 ends without one
RECURSIVE FirstAvailableStart(_, _, _, _, _, _, _, _)
FirstAvailableStart(idx, a, course, room, day, slotIndices, k, slotsNeeded) ==
    IF k > Len(slotIndices) THEN 0 - 1
    ELSE IF AllAvailable(idx, a, course, room, day, slotIndices[k], slotsNeeded)
    THEN slotIndices[k]
    ELSE FirstAvailableStart(idx, a, course, room, day, slotIndices, k + 1,
                             slotsNeeded)

\* Lines 156-223: one (room, day) iteration of the contiguous phase: a fresh
\* order of the start indices, the first available block is assigned and the
\* course is done; with none, the next day, the next room, or the fallback.
\* The loop variables go out of use with the phase and are cleared.
TryDay ==
    /\ pc = "contiguous"
    /\ LET course      == sortedCourses[ci]
           rooms       == SuitableRooms(classrooms, course)
           room        == rooms[ri]
           day         == shuffledDays[di]
           slotsNeeded == SlotsNeeded(course)
       IN  \E slotIndices \in Shuffles(StartIndices(slotsNeeded)) :
              LET startIdx == FirstAvailableStart(Idx, Assignments, course, room,
                                  day, slotIndices, 1, slotsNeeded)
              IN  IF startIdx >= 0
                  THEN /\ SetAssignments(AssignBlock(Assignments, course, room,
                                             day, startIdx, slotsNeeded),
                                         "contiguous")
                       /\ ci' = ci + 1
                       /\ pc' = "course"
                       /\ shuffledDays' = <<>> /\ ri' = 0 /\ di' = 0
                  ELSE /\ UNCHANGED <<assignVars, ci>>
                       /\ IF di < Len(shuffledDays)
                          THEN /\ di' = di + 1
                               /\ UNCHANGED <<shuffledDays, ri, pc>>
                          ELSE IF ri < Len(rooms)
                          THEN /\ ri' = ri + 1
                               /\ di' = 1
                               /\ UNCHANGED <<shuffledDays, pc>>
                          ELSE /\ pc' = "scattered"
                               /\ shuffledDays' = <<>> /\ ri' = 0 /\ di' = 0
    /\ UNCHANGED <<inputVars, indexVars, sortedCourses, warnings, returned, runVars, auditVars>>

\* Lines 226-277: the scattered fallback of a course that got no block,
\* under the order shuffledSlots of allSlots
ScatterWith(shuffledSlots) ==
    /\ pc = "scattered"
    /\ LET course      == sortedCourses[ci]
           rooms       == SuitableRooms(classrooms, course)
           slotsNeeded == SlotsNeeded(course)
           s == ScatterRooms(Idx, [a |-> Assignments, assignedSlots |-> 0],
                             course, rooms, 1, shuffledSlots, slotsNeeded)
       IN  /\ SetAssignments(s.a, "scattered")
           /\ warnings' =
                 IF s.assignedSlots < slotsNeeded
                 THEN Append(warnings,
                          [text          |-> "Could only assign",
                           assignedSlots |-> s.assignedSlots,
                           slotsNeeded   |-> slotsNeeded,
                           code          |-> course.code])
                 ELSE warnings
    /\ ci' = ci + 1
    /\ pc' = "course"
    /\ UNCHANGED <<inputVars, indexVars, sortedCourses, loopVars, returned, runVars, auditVars>>

\* Line 230 as written: any order of allSlots
ScatterAnyOrder == \E shuffledSlots \in Shuffles(allSlots) : ScatterWith(shuffledSlots)

\* The slots of allSlots that are available to the course in some suitable
\* room when the fallback starts (live), or in none (not live)
LiveSlots(live) ==
    LET course == sortedCourses[ci]
        rooms  == SuitableRooms(classrooms, course)
    IN  SelectSeq(allSlots,
            LAMBDA slot :
                live = (\E r \in 1..Len(rooms) :
                           isSlotAvailable(Idx, Assignments, course, slot, rooms[r].id)))

\* Line 230, each order taken up to the places of the slots that are not
\* live: a slot that is unavailable in every room stays so while the loops
\* run and is passed over wherever it stands, so the orders that differ only
\* in where those slots stand lead to the same rows and maps.  One order
\* stands for them all: the live slots in any order, then the others.
\* (ScatterRefines states that nothing is lost.)
Scatter ==
    /\ pc = "scattered"
    /\ \E liveOrder \in Shuffles(LiveSlots(TRUE)) :
          ScatterWith(liveOrder \o LiveSlots(FALSE))

\* Line 280
Return ==
    /\ pc = "course"
    /\ ci > Len(sortedCourses)
    /\ returned' = scheduledClasses
    /\ pc' = "done"
    /\ UNCHANGED <<inputVars, indexVars, sortedCourses, assignVars, ci, loopVars,
                   warnings, runVars, auditVars>>

\* A second call of generateTimetable with the same options, after the first
\* has returned
Rerun ==
    /\ pc = "done"
    /\ run = 1
    /\ run' = 2
    /\ firstReturned' = returned
    /\ pc' = "index"
    /\ instructorUnavailable' = EmptyMap
    /\ roomUnavailable' = EmptyMap
    /\ courseConflicts' = EmptyMap
    /\ sortedCourses' = <<>>
    /\ instructorAssignments' = EmptyMap
    /\ classroomAssignments' = EmptyMap
    /\ courseAssignments' = EmptyMap
    /\ scheduledClasses' = <<>>
    /\ ci' = 0
    /\ warnings' = <<>>
    /\ returned' = <<>>
    /\ placedBy' = <<>>
    /\ UNCHANGED <<inputVars, loopVars, auditVars>>

\* The caller hands the rows generateTimetable resolved to to checkConflicts
AuditReturned ==
    /\ pc = "done"
    /\ audited' = returned
    /\ pc' = "audit"
    /\ UNCHANGED <<inputVars, indexVars, sortedCourses, assignVars, ci, loopVars,
                   warnings, returned, runVars, conflicts>>

\* Lines 286-360: checkConflicts(audited)
CheckConflicts ==
    /\ pc = "audit"
    /\ conflicts' = checkConflicts(audited)
    /\ pc' = "audited"
    /\ UNCHANGED <<inputVars, indexVars, sortedCourses, assignVars, ci, loopVars,
                   warnings, returned, runVars, audited>>

Next ==
    \/ BuildIndex
    \/ SortCourses
    \/ SkipCourse
    \/ StartCourse
    \/ TryDay
    \/ Scatter
    \/ Return

(***************************************************************************)
(* The inputs of the specifications                                        *)
(***************************************************************************)
AllCourseLists == UNION {CourseLists(n) : n \in 1..MaxCourses}
AllRoomLists   == UNION {RoomLists(n) : n \in 0..MaxRooms}

\* The constraint records the lists are made of: instructor 1 and room 1
\* unavailable in the middle slot of a day, courses 1 and 2 in conflict (named
\* from either side), and a conflict whose second course id is no number
ConstraintPool ==
    Unavailable("instructor_unavailable", {1}, Days, {timeSlots[2]})
    \cup Unavailable("room_unavailable", {1}, Days, {timeSlots[2]})
    \cup Conflicts({1}, {IdString(2), <<"x">>})
    \cup Conflicts({2}, {IdString(1)})

\* Every room closed in the middle slot of every day: no block of two or
\* three slots is left in any room
MiddleSlotClosed ==
    [k \in 1..(MaxRooms * Len(weekDays)) |->
        [type     |-> "room_unavailable",
         entityId |-> ((k - 1) \div Len(weekDays)) + 1,
         day      |-> weekDays[((k - 1) % Len(weekDays)) + 1],
         timeSlot |-> timeSlots[2]]]

\* Courses that fit every room
SmallCourseLists ==
    UNION {{[i \in 1..n |-> Course(i, f[i][1], 1, f[i][2])] :
               f \in [1..n -> Credits \X (1..MaxInstructors)]} : n \in 1..MaxCourses}

\* No constraints: any courses, any rooms
InitFree == InitFrom(AllCourseLists, AllRoomLists, {<<>>})

\* Up to MaxConstraints records of the pool: courses that fit every room,
\* one room or several, the smallest room first or last in the input
InitConstrained ==
    InitFrom(SmallCourseLists,
             UNION {{r \in RoomLists(n) : r[n].capacity = 1} : n \in 1..MaxRooms},
             ListsOver(ConstraintPool, MaxConstraints) \ {<<>>})

\* The middle slot closed everywhere: any courses, MaxRooms rooms
InitClosed == InitFrom(AllCourseLists, RoomLists(MaxRooms), {MiddleSlotClosed})

Init == InitFree \/ InitConstrained \/ InitClosed

Spec == Init /\ [][Next]_vars

\* generateTimetable, then checkConflicts on the rows it returned
NextAudited ==
    \/ BuildIndex
    \/ SortCourses
    \/ SkipCourse
    \/ StartCourse
    \/ TryDay
    \/ Scatter
    \/ Return
    \/ AuditReturned
    \/ CheckConflicts

SpecAudited == Init /\ [][NextAudited]_vars

\* No constraints, up to MaxFreeCourses courses that fit every room
InitFreeMany ==
    InitFrom(UNION {{[i \in 1..n |-> Course(i, f[i][1], 1, f[i][2])] :
                        f \in [1..n -> Credits \X (1..MaxInstructors)]} :
                    n \in 1..MaxFreeCourses},
             AllRoomLists, {<<>>})

SpecFree == InitFreeMany /\ [][Next]_vars

\* Records that may repeat: instructor 1 unavailable in one slot, instructor 2
\* in two, courses 1 and 2 in conflict
OrderPool ==
    Unavailable("instructor_unavailable", {1}, {weekDays[1]}, {timeSlots[2]})
    \cup Unavailable("instructor_unavailable", {2}, Days, {timeSlots[2]})
    \cup Conflicts({1}, {IdString(2)})

\* Two courses of one or two slots that fit the room, no room or one room,
\* and up to MaxOrderConstraints records of OrderPool in any order, with
\* repetitions
InitOrder ==
    InitFrom({[i \in 1..2 |-> Course(i, f[i][1], 1, f[i][2])] :
                 f \in [1..2 -> {2, 3} \X (1..MaxInstructors)]},
             {<<>>, <<[id |-> 1, capacity |-> 1]>>},
             ListsOver(OrderPool, MaxOrderConstraints))

SpecOrder == InitOrder /\ [][Next]_vars

\* One course, called twice
InitRerun == InitFrom(CourseLists(1), AllRoomLists, {<<>>, MiddleSlotClosed})

NextRerun ==
    \/ BuildIndex
    \/ SortCourses
    \/ SkipCourse
    \/ StartCourse
    \/ TryDay
    \/ Scatter
    \/ Return
    \/ Rerun

SpecRerun == InitRerun /\ [][NextRerun]_vars

\* The start and the end time of a time-slot label, as lines 201-203 and 256
\* take them
StartOf(label) == Trim(Split(label, "-")[1])
EndOf(label)   == Trim(Split(label, "-")[2])

\* Rows made by hand for checkConflicts: instructors and classrooms up to
\* MaxAuditIds, and three (day, startTime, endTime) tuples, two of which are
\* on the same day with the same start and time ranges that overlap in part
AuditTimes ==
    {<<weekDays[1], StartOf(timeSlots[1]), EndOf(timeSlots[1])>>,
     <<weekDays[1], StartOf(timeSlots[1]), EndOf(timeSlots[2])>>,
     <<weekDays[2], StartOf(timeSlots[1]), EndOf(timeSlots[1])>>}

AuditRows ==
    {[id           |-> 0,
      courseId     |-> 1,
      instructorId |-> i,
      classroomId  |-> r,
      day          |-> t[1],
      startTime    |-> t[2],
      endTime      |-> t[3],
      timetableId  |-> timetableId] :
        i \in 1..MaxAuditIds, r \in 1..MaxAuditIds, t \in AuditTimes}

\* checkConflicts called with any list of up to MaxAuditRows such rows
InitAudit ==
    /\ audited \in ListsOver(AuditRows, MaxAuditRows)
    /\ conflicts = NotCalled
    /\ pc = "audit"
    /\ courses = <<>> /\ classrooms = <<>> /\ constraints = <<>>
    /\ instructorUnavailable = EmptyMap
    /\ roomUnavailable = EmptyMap
    /\ courseConflicts = EmptyMap
    /\ sortedCourses = <<>>
    /\ instructorAssignments = EmptyMap
    /\ classroomAssignments = EmptyMap
    /\ courseAssignments = EmptyMap
    /\ scheduledClasses = <<>>
    /\ ci = 0
    /\ shuffledDays = <<>>
    /\ ri = 0
    /\ di = 0
    /\ warnings = <<>>
    /\ returned = <<>>
    /\ placedBy = <<>>
    /\ run = 1
    /\ firstReturned = <<>>

NextAudit == CheckConflicts

SpecAudit == InitAudit /\ [][NextAudit]_vars

(***************************************************************************)
(* What the claims speak of                                                *)
(***************************************************************************)
\* The minutes since midnight of a time "HH:MM"
ToMinutes(t) ==
    LET parts == Split(t, ":")
    IN  60 * LeadingDigits(parts[1], 0) + LeadingDigits(parts[2], 0)

\* Two rows on the same day whose time ranges overlap
Overlap(r1, r2) ==
    /\ r1.day = r2.day
    /\ ToMinutes(r1.startTime) < ToMinutes(r2.endTime)
    /\ ToMinutes(r2.startTime) < ToMinutes(r1.endTime)

\* The label of the time slot a row starts in
LabelOf(row) ==
    CHOOSE label \in Labels : Trim(Split(label, "-")[1]) = row.startTime

\* The (day, time-slot) cell of a row
CellOf(row) == [day |-> row.day, timeSlot |-> LabelOf(row)]

\* The positions of the rows of a course in a list of rows
RowsOfCourse(rows, courseId) == {i \in 1..Len(rows) : rows[i].courseId = courseId}

\* A list of slots holds no slot twice
NoRepeat(list) ==
    \A i, j \in 1..Len(list) : i # j => list[i] # list[j]

Done == pc = "done"

\* C1: the returned schedule never holds two distinct rows of one instructor
\* on the same day with overlapping time ranges, nor two in the same cell,
\* and the instructor's occupancy list never holds a cell twice.
C1_NoInstructorDoubleBooking ==
    /\ Done =>
         \A i, j \in 1..Len(returned) :
            (i # j /\ returned[i].instructorId = returned[j].instructorId)
            => /\ ~Overlap(returned[i], returned[j])
               /\ CellOf(returned[i]) # CellOf(returned[j])
    /\ \A k \in DOMAIN instructorAssignments : NoRepeat(instructorAssignments[k])

\* An instructor has, on one day, a row of a block and a scattered row of
\* another course
C1_Witness ==
    /\ Done
    /\ \E i, j \in 1..Len(returned) :
          /\ returned[i].instructorId = returned[j].instructorId
          /\ returned[i].courseId # returned[j].courseId
          /\ returned[i].day = returned[j].day
          /\ placedBy[i] = "contiguous"
          /\ placedBy[j] = "scattered"

\* C2: the returned schedule never holds two distinct rows of one classroom
\* on the same day with overlapping time ranges, nor two in the same cell,
\* and the classroom's occupancy list never holds a cell twice.
C2_NoClassroomDoubleBooking ==
    /\ Done =>
         \A i, j \in 1..Len(returned) :
            (i # j /\ returned[i].classroomId = returned[j].classroomId)
            => /\ ~Overlap(returned[i], returned[j])
               /\ CellOf(returned[i]) # CellOf(returned[j])
    /\ \A k \in DOMAIN classroomAssignments : NoRepeat(classroomAssignments[k])

\* A course placed by the fallback in two different rooms, one of which
\* hosts another course on the same day
C2_Witness ==
    /\ Done
    /\ \E i, j, k \in 1..Len(returned) :
          /\ placedBy[i] = "scattered" /\ placedBy[j] = "scattered"
          /\ returned[i].courseId = returned[j].courseId
          /\ returned[i].classroomId # returned[j].classroomId
          /\ returned[k].courseId # returned[i].courseId
          /\ returned[k].classroomId = returned[i].classroomId
          /\ returned[k].day = returned[i].day

\* The pairs (A, B) of course ids that a course_conflict record names, A as
\* its entityId and B as the number in its timeSlot field
DeclaredConflicts ==
    {<<constraints[k].entityId, ParseInt(constraints[k].timeSlot)>> :
        k \in {n \in 1..Len(constraints) :
                  /\ constraints[n].type = "course_conflict"
                  /\ ParseInt(constraints[n].timeSlot) # NaN}}

Holds(map, key, value) ==
    /\ key \in DOMAIN map
    /\ \E k \in 1..Len(map[key]) : map[key][k] = value

\* C3: once the index is built it holds A->B and B->A for every declared
\* conflict, and no row of A shares a cell with a row of B.
C3_ConflictsKeptApart ==
    \A p \in DeclaredConflicts :
        /\ pc # "index" =>
              /\ Holds(courseConflicts, p[1], p[2])
              /\ Holds(courseConflicts, p[2], p[1])
        /\ \A i \in RowsOfCourse(scheduledClasses, p[1]) :
              \A j \in RowsOfCourse(scheduledClasses, p[2]) :
                 i # j => CellOf(scheduledClasses[i]) # CellOf(scheduledClasses[j])

\* A conflict declared from course 1's side, course 2 placed first, the two
\* with different instructors and with rows on the same day
C3_Witness ==
    /\ Done
    /\ <<1, 2>> \in DeclaredConflicts
    /\ <<2, 1>> \notin DeclaredConflicts
    /\ sortedCourses[1].id = 2
    /\ \E i \in RowsOfCourse(returned, 1) : \E j \in RowsOfCourse(returned, 2) :
          /\ returned[i].day = returned[j].day
          /\ returned[i].instructorId # returned[j].instructorId

\* A constraint record of the given type declares the cell for the entity
Declares(type, entityId, cell) ==
    \E k \in 1..Len(constraints) :
        /\ constraints[k].type = type
        /\ constraints[k].entityId = entityId
        /\ constraints[k].day = cell.day
        /\ constraints[k].timeSlot = cell.timeSlot

\* C4: no row lies in a cell declared unavailable for its instructor or for
\* its classroom.
C4_UnavailabilityRespected ==
    \A i \in 1..Len(scheduledClasses) :
        LET row == scheduledClasses[i]
        IN  /\ ~Declares("instructor_unavailable", row.instructorId, CellOf(row))
            /\ ~Declares("room_unavailable", row.classroomId, CellOf(row))

\* The slot after a cell, on the same day
NextCell(cell) ==
    [day |-> cell.day,
     timeSlot |-> timeSlots[(CHOOSE k \in 1..Len(timeSlots) :
                                timeSlots[k] = cell.timeSlot) + 1]]

\* A block whose first cell is free for the instructor and lies right before
\* a cell declared unavailable for him was passed over: the course, which
\* needs two slots or more, got scattered rows, one of them in that first cell
C4_Witness ==
    /\ Done
    /\ \E i \in 1..Len(returned) :
          /\ placedBy[i] = "scattered"
          /\ CellOf(returned[i]).timeSlot = timeSlots[1]
          /\ Declares("instructor_unavailable", returned[i].instructorId,
                      NextCell(CellOf(returned[i])))
    /\ \E i \in 1..Len(returned) :
          /\ placedBy[i] = "contiguous"
          /\ CellOf(returned[i]).timeSlot = timeSlots[1]
          /\ Declares("room_unavailable", returned[i].classroomId,
                      NextCell(CellOf(returned[i])))

\* C5: every row uses a classroom whose capacity is at least the capacity
\* its course requires.
C5_RoomLargeEnough ==
    \A i \in 1..Len(scheduledClasses) :
        \A c \in 1..Len(courses) : \A r \in 1..Len(classrooms) :
            (/\ courses[c].id = scheduledClasses[i].courseId
             /\ classrooms[r].id = scheduledClasses[i].classroomId)
            => classrooms[r].capacity >= courses[c].capacity

\* Rows of a block and scattered rows, each of a course for which some other
\* room is too small
C5_Witness ==
    /\ Done
    /\ \A phase \in {"contiguous", "scattered"} :
          \E i \in 1..Len(returned) : \E c \in 1..Len(courses) :
             /\ placedBy[i] = phase
             /\ courses[c].id = returned[i].courseId
             /\ \E r \in 1..Len(classrooms) :
                   classrooms[r].capacity < courses[c].capacity

\* The number of slots the claim gives for a credit count
SlotsForCredits(credits) ==
    IF credits >= 4 THEN 3 ELSE IF credits = 3 THEN 2 ELSE 1

\* The courses console.warn was told about
Warned == {warnings[k].code : k \in 1..Len(warnings)}

\* C6: slotsNeeded is 3, 2 or 1 by the credits; a course never has more rows,
\* or more distinct cells, than that, and at the end it has exactly that many
\* exactly when it was placed in full (no warning was given for it).
C6_SlotCount ==
    \A c \in 1..Len(courses) :
        LET course == courses[c]
            rows   == RowsOfCourse(scheduledClasses, course.id)
            cells  == {CellOf(scheduledClasses[i]) : i \in rows}
        IN  /\ SlotsNeeded(course) = SlotsForCredits(course.credits)
            /\ Cardinality(rows) <= SlotsForCredits(course.credits)
            /\ Cardinality(cells) = Cardinality(rows)
            /\ Done => (Cardinality(rows) = SlotsForCredits(course.credits)
                        <=> course.code \notin Warned)

\* A course of 4 credits with three scattered rows, and another course left
\* with fewer rows than it needs
C6_Witness ==
    /\ Done
    /\ \E c, d \in 1..Len(courses) :
          /\ courses[c].credits = 4
          /\ Cardinality(RowsOfCourse(returned, courses[c].id)) = 3
          /\ \A i \in RowsOfCourse(returned, courses[c].id) : placedBy[i] = "scattered"
          /\ courses[d].credits = 3
          /\ Cardinality(RowsOfCourse(returned, courses[d].id)) = 1

\* The slots all the courses of a list need together
RECURSIVE TotalSlotsNeeded(_)
TotalSlotsNeeded(cs) ==
    IF cs = <<>> THEN 0 ELSE SlotsNeeded(Head(cs)) + TotalSlotsNeeded(Tail(cs))

\* There is a classroom, no classroom is too small for any course, and there
\* is no constraint record
SufficientRoomsNoConstraints ==
    /\ classrooms # <<>>
    /\ \A r \in 1..Len(classrooms) : \A c \in 1..Len(courses) :
          classrooms[r].capacity >= courses[c].capacity
    /\ constraints = <<>>

\* Every course has slotsNeeded rows and no warning was given
AllPlacedInFull ==
    /\ \A c \in 1..Len(courses) :
          Cardinality(RowsOfCourse(returned, courses[c].id)) = SlotsNeeded(courses[c])
    /\ warnings = <<>>

\* C7 as stated: with sufficient rooms and no constraints every course is
\* placed in full and none is reported, for every number of courses.
C7_FullPlacementAnyN ==
    (Done /\ SufficientRoomsNoConstraints) => AllPlacedInFull

\* C7 amended: with sufficient rooms, no constraints and no more slots needed
\* by all the courses together than the grid has cells, every course is
\* placed in full and none is reported.
C7_FullPlacementWithinGrid ==
    (/\ Done
     /\ SufficientRoomsNoConstraints
     /\ TotalSlotsNeeded(courses) <= Len(allSlots))
    => AllPlacedInFull

\* Three courses of one instructor in one room fill the grid, the last of
\* them by scattered rows
C7_Witness ==
    /\ Done
    /\ SufficientRoomsNoConstraints
    /\ Len(courses) = 3
    /\ Len(classrooms) = 1
    /\ TotalSlotsNeeded(courses) = Len(allSlots)
    /\ Len(returned) = Len(allSlots)
    /\ \E i \in 1..Len(returned) : placedBy[i] = "scattered"

\* The diagnostics the returned value holds: its entries that say how many
\* slots a course achieved
ReturnedDiagnostics ==
    {returned[i] : i \in {k \in 1..Len(returned) : "slotsAchieved" \in DOMAIN returned[k]}}

\* C8: every course that ends with fewer than slotsNeeded rows is reported,
\* with the count it achieved, in a diagnostics list of the returned value.
C8_UnderScheduledReturned ==
    Done =>
       \A c \in 1..Len(courses) :
          LET achieved == Cardinality(RowsOfCourse(returned, courses[c].id))
          IN  achieved < SlotsNeeded(courses[c])
              => \E d \in ReturnedDiagnostics :
                    /\ d.courseCode = courses[c].code
                    /\ d.slotsAchieved = achieved

\* A string of decimal digits
IsNumeric(str) == str # <<>> /\ \A k \in 1..Len(str) : IsDigit(str[k])

\* A course_conflict record whose second course id is not numeric
MalformedConflict ==
    \E k \in 1..Len(constraints) :
        /\ constraints[k].type = "course_conflict"
        /\ ~IsNumeric(constraints[k].timeSlot)

\* C9: with a course_conflict record whose second course id is not numeric
\* the input is rejected before scheduling: no conflict-index entry is made
\* for it, no occupancy map is touched and no row is emitted.
C9_MalformedConflictRejected ==
    MalformedConflict =>
        /\ NaN \notin DOMAIN courseConflicts
        /\ \A k \in DOMAIN courseConflicts : ~Holds(courseConflicts, k, NaN)
        /\ instructorAssignments = EmptyMap
        /\ classroomAssignments = EmptyMap
        /\ courseAssignments = EmptyMap
        /\ scheduledClasses = <<>>
        /\ returned = <<>>

\* C10: a second run on the same input returns the same rows in the same
\* order as the first.
C10_SameInputSameOutput ==
    (run = 2 /\ Done) => returned = firstReturned

Audited == pc = "audited"

\* The rows of a list that have the given id in the given field and the
\* (day, startTime, endTime) of row, in the order of the list
GroupOf(rows, idField, row) ==
    SelectSeq(rows, LAMBDA r : /\ r[idField] = row[idField]
                               /\ r.day = row.day
                               /\ r.startTime = row.startTime
                               /\ r.endTime = row.endTime)

\* The entries of a conflict list that speak of the group of row
EntriesOf(entries, idField, row) ==
    {e \in 1..Len(entries) :
        /\ entries[e][idField] = row[idField]
        /\ \E k \in 1..Len(entries[e].classes) :
              /\ entries[e].classes[k].day = row.day
              /\ entries[e].classes[k].startTime = row.startTime
              /\ entries[e].classes[k].endTime = row.endTime}

\* One entry for every group of more than one row, listing the rows of the
\* group, and none for a group of one row
OneEntryPerGroup(entries, idField) ==
    /\ \A k \in 1..Len(audited) :
          LET group == GroupOf(audited, idField, audited[k])
              es    == EntriesOf(entries, idField, audited[k])
          IN  /\ Cardinality(es) = IF Len(group) > 1 THEN 1 ELSE 0
              /\ \A e \in es : entries[e].classes = group
    /\ \A e \in 1..Len(entries) :
          \E k \in 1..Len(audited) : e \in EntriesOf(entries, idField, audited[k])

\* C11: checkConflicts reports exactly one instructor-conflict entry for each
\* (instructorId, day, startTime, endTime) group of more than one row, the
\* entry lists all the rows of the group, and nothing is reported for a group
\* of one row or across different (day, startTime, endTime); likewise for the
\* classrooms.
C11_OneEntryPerGroup ==
    Audited =>
        /\ OneEntryPerGroup(conflicts.instructorConflicts, "instructorId")
        /\ OneEntryPerGroup(conflicts.classroomConflicts, "classroomId")

\* C12: checkConflicts returns a result of three lists whose studentConflicts
\* is empty for every input, and three empty lists for an empty schedule.
C12_NoStudentConflicts ==
    Audited =>
        /\ DOMAIN conflicts =
              {"instructorConflicts", "classroomConflicts", "studentConflicts"}
        /\ conflicts.studentConflicts = <<>>
        /\ audited = <<>> =>
              /\ conflicts.instructorConflicts = <<>>
              /\ conflicts.classroomConflicts = <<>>

\* A full list of rows with an instructor conflict and a classroom conflict
\* in it has been audited
C12_Witness ==
    /\ Audited
    /\ Len(audited) = MaxAuditRows
    /\ conflicts.instructorConflicts # <<>>
    /\ conflicts.classroomConflicts # <<>>
    /\ conflicts.studentConflicts = <<>>

\* The positions of the rows the contiguous phase emitted for a course
BlockRows(courseId) ==
    {i \in RowsOfCourse(scheduledClasses, courseId) : placedBy[i] = "contiguous"}

\* The rows at positions first..first+n-1 are a block of n slots from slot
\* start (from 1) on: one day, one classroom, consecutive slots within the
\* day, each row but the last ending where the next starts, the last ending
\* at the end time of its slot
IsBlock(first, n, start) ==
    /\ start + n - 1 <= Len(timeSlots)
    /\ \A k \in 0..(n - 1) :
          LET row == scheduledClasses[first + k]
          IN  /\ row.day = scheduledClasses[first].day
              /\ row.classroomId = scheduledClasses[first].classroomId
              /\ row.startTime = StartOf(timeSlots[start + k])
              /\ k < n - 1 => row.endTime = scheduledClasses[first + k + 1].startTime
              /\ k = n - 1 => row.endTime = EndOf(timeSlots[start + k])

\* C13: the rows the contiguous phase gives a course are slotsNeeded rows on
\* one day in one classroom, in consecutive time slots start..start+slotsNeeded-1
\* within the day, covering one continuous time range: every row but the last
\* ends at the start time of the next, the last at the end time of its slot.
C13_BlockShape ==
    \A c \in 1..Len(courses) :
        LET rows == BlockRows(courses[c].id)
            n    == SlotsNeeded(courses[c])
        IN  rows # {} =>
              /\ Cardinality(rows) = n
              /\ \E first \in rows :
                    /\ rows = first..(first + n - 1)
                    /\ \E start \in 1..Len(timeSlots) : IsBlock(first, n, start)

\* A block of two slots across the break and a block of three slots
C13_Witness ==
    /\ Done
    /\ \E i \in 1..Len(returned) :
          /\ placedBy[i] = "contiguous"
          /\ returned[i].startTime = StartOf(timeSlots[2])
          /\ returned[i].endTime = StartOf(timeSlots[3])
          /\ returned[i].endTime # EndOf(timeSlots[2])
    /\ \E c \in 1..Len(courses) :
          /\ SlotsNeeded(courses[c]) = 3
          /\ Cardinality(BlockRows(courses[c].id)) = 3

\* C14: checkConflicts on the rows generateTimetable returned finds no
\* instructor conflict, no classroom conflict and no student conflict.
C14_GeneratedScheduleAuditsClean ==
    (Audited /\ audited = returned) =>
        /\ conflicts.instructorConflicts = <<>>
        /\ conflicts.classroomConflicts = <<>>
        /\ conflicts.studentConflicts = <<>>

\* The audited schedule has, for one instructor and in one classroom, a row
\* of a block that ends at the next slot's start, later than its own slot
\* ends, and a scattered row of another course
C14_Witness ==
    /\ Audited
    /\ audited = returned
    /\ \E i, j \in 1..Len(audited) :
          /\ placedBy[i] = "contiguous"
          /\ audited[i].startTime = StartOf(timeSlots[2])
          /\ audited[i].endTime = StartOf(timeSlots[3])
          /\ placedBy[j] = "scattered"
          /\ audited[j].courseId # audited[i].courseId
          /\ audited[j].instructorId = audited[i].instructorId
          /\ audited[j].classroomId = audited[i].classroomId

\* Two courses of one instructor with the same capacity, one classroom that
\* is large enough, one constraint record, a course_conflict between the two,
\* and a grid with a cell for every slot the two need
TwoConflictingCourses ==
    /\ Len(courses) = 2
    /\ courses[1].instructorId = courses[2].instructorId
    /\ courses[1].capacity = courses[2].capacity
    /\ Len(classrooms) = 1
    /\ classrooms[1].capacity >= courses[1].capacity
    /\ Len(constraints) = 1
    /\ constraints[1].type = "course_conflict"
    /\ \E a, b \in 1..2 :
          /\ a # b
          /\ constraints[1].entityId = courses[a].id
          /\ ParseInt(constraints[1].timeSlot) = courses[b].id
    /\ SlotsForCredits(courses[1].credits) + SlotsForCredits(courses[2].credits)
          <= Len(allSlots)

\* The cells of the rows of a course in the returned schedule
CellsOfCourse(courseId) ==
    {CellOf(returned[i]) : i \in RowsOfCourse(returned, courseId)}

\* C15: in the two-course scenario every run places both courses in full and
\* in disjoint sets of cells.
C15_BothPlacedApart ==
    (Done /\ TwoConflictingCourses) =>
        /\ \A c \in 1..2 :
              /\ Cardinality(RowsOfCourse(returned, courses[c].id))
                    = SlotsForCredits(courses[c].credits)
              /\ Cardinality(CellsOfCourse(courses[c].id))
                    = SlotsForCredits(courses[c].credits)
        /\ CellsOfCourse(courses[1].id) \cap CellsOfCourse(courses[2].id) = {}

\* The scenario with the conflict named from the second course's side and
\* the two courses filling the grid
C15_Witness ==
    /\ Done
    /\ TwoConflictingCourses
    /\ constraints[1].entityId = courses[2].id
    /\ Len(returned) = Len(allSlots)

\* The elements of a list of the index, each counted once
Distinct(map, key) ==
    IF key \in DOMAIN map THEN {map[key][k] : k \in 1..Len(map[key])} ELSE {}

\* score(course) = |conflicts(course)| + |instructorUnavailable(instructor)|,
\* conflicts(course) the set of the course ids in conflict with the course
\* and instructorUnavailable the set of the instructor's unavailable slots
Score(course) ==
    Cardinality(Distinct(courseConflicts, course.id))
    + Cardinality(Distinct(instructorUnavailable, course.instructorId))

\* C16: whenever course X is processed before course Y, score(X) >= score(Y),
\* also when the constraint list repeats a conflict pair or an unavailable
\* slot.
C16_DescendingScore ==
    pc \notin {"index", "sort"} =>
        \A i, j \in 1..Len(sortedCourses) :
            (i < j /\ j < ci) => Score(sortedCourses[i]) >= Score(sortedCourses[j])

\* The cell is feasible for the course in the room, the maps being as they are
Feasible(course, cell, roomId) ==
    isSlotAvailable(Idx, Assignments, course, cell, roomId)

\* The slotsNeeded consecutive cells from slot start (from 1) on of the day
\* are all feasible for the course in the room
BlockFeasible(course, roomId, day, start) ==
    \A k \in 0..(SlotsNeeded(course) - 1) :
        Feasible(course, [day |-> day, timeSlot |-> timeSlots[start + k]], roomId)

\* Some suitable room has a feasible block for the course on some day at
\* some valid start
SomeBlockFeasible(course) ==
    \E r \in 1..Len(classrooms) : \E d \in 1..Len(weekDays) :
        \E start \in 1..(Len(timeSlots) - SlotsNeeded(course) + 1) :
            /\ classrooms[r].capacity >= course.capacity
            /\ BlockFeasible(course, classrooms[r].id, weekDays[d], start)

\* The cells a map holds under a key
CellsUnder(map, key) == IF key \in DOMAIN map THEN Len(map[key]) ELSE 0

\* A course has no row of the contiguous phase or slotsNeeded of them, and
\* then no scattered row; the fallback is entered only with no feasible block
BlockOrNothing ==
    /\ \A c \in 1..Len(courses) :
          LET rows == BlockRows(courses[c].id)
          IN  /\ Cardinality(rows) \in {0, SlotsNeeded(courses[c])}
              /\ rows # {} => rows = RowsOfCourse(scheduledClasses, courses[c].id)
    /\ pc = "scattered" => ~SomeBlockFeasible(sortedCourses[ci])

\* A step of the contiguous phase that places the course adds slotsNeeded
\* cells to each map under the course's keys and slotsNeeded rows; any other
\* step of the phase leaves the maps and the rows as they are
BlockStep ==
    pc = "contiguous" =>
        IF pc' = "course"
        THEN LET course == sortedCourses[ci]
                 n      == SlotsNeeded(course)
             IN  /\ Len(scheduledClasses') = Len(scheduledClasses) + n
                 /\ CellsUnder(instructorAssignments', course.instructorId)
                       = CellsUnder(instructorAssignments, course.instructorId) + n
                 /\ CellsUnder(courseAssignments', course.id)
                       = CellsUnder(courseAssignments, course.id) + n
                 /\ \E r \in 1..Len(classrooms) :
                       /\ CellsUnder(classroomAssignments', classrooms[r].id)
                             = CellsUnder(classroomAssignments, classrooms[r].id) + n
                       /\ \A q \in 1..Len(classrooms) :
                             q # r => CellsUnder(classroomAssignments', classrooms[q].id)
                                      = CellsUnder(classroomAssignments, classrooms[q].id)
        ELSE UNCHANGED <<instructorAssignments, classroomAssignments,
                         courseAssignments, scheduledClasses>>

\* C17: the contiguous phase commits slotsNeeded cells of one block or no cell
\* at all, a block that is not feasible leaves the maps and the rows
\* unchanged, the fallback runs for a course only when no (suitable room, day,
\* valid start) block was feasible for it, and a course placed by the
\* contiguous phase gets no scattered row.
C17_AllOrNothing == []BlockOrNothing /\ [][BlockStep]_vars

\* A course placed as a block of three and another, with two suitable rooms
\* to search, placed by the fallback
C17_Witness ==
    /\ Done
    /\ \E c, d \in 1..Len(courses) :
          /\ Cardinality(BlockRows(courses[c].id)) = 3
          /\ Len(SuitableRooms(classrooms, courses[d])) = 2
          /\ RowsOfCourse(returned, courses[d].id) # {}
          /\ \A i \in RowsOfCourse(returned, courses[d].id) : placedBy[i] = "scattered"

\* The room has a feasible block for the course on some day at some valid
\* start
RoomHasBlock(course, room) ==
    \E d \in 1..Len(weekDays) :
        \E start \in 1..(Len(timeSlots) - SlotsNeeded(course) + 1) :
            BlockFeasible(course, room.id, weekDays[d], start)

\* When the contiguous phase places the course, the classroom of the new
\* rows is suitable and had a feasible block, and no suitable classroom of
\* strictly smaller capacity had one
SmallestRoomStep ==
    (pc = "contiguous" /\ pc' = "course") =>
        LET course == sortedCourses[ci]
            row    == scheduledClasses'[Len(scheduledClasses) + 1]
        IN  \E r \in 1..Len(classrooms) :
               /\ classrooms[r].id = row.classroomId
               /\ classrooms[r].capacity >= course.capacity
               /\ RoomHasBlock(course, classrooms[r])
               /\ \A q \in 1..Len(classrooms) :
                     (/\ classrooms[q].capacity >= course.capacity
                      /\ classrooms[q].capacity < classrooms[r].capacity)
                     => ~RoomHasBlock(course, classrooms[q])

\* C18: the classroom the contiguous phase chooses has the smallest capacity
\* among the suitable classrooms that had a feasible block for the course at
\* that moment.
C18_SmallestRoom == [][SmallestRoomStep]_vars

\* A block was placed in a classroom larger than another suitable classroom,
\* which is full
C18_Witness ==
    \E i \in 1..Len(scheduledClasses) : \E r, q \in 1..Len(classrooms) :
        /\ placedBy[i] = "contiguous"
        /\ classrooms[r].id = scheduledClasses[i].classroomId
        /\ classrooms[q].capacity < classrooms[r].capacity
        /\ \E c \in 1..Len(courses) :
              /\ courses[c].id = scheduledClasses[i].courseId
              /\ classrooms[q].capacity >= courses[c].capacity
        /\ CellsUnder(classroomAssignments, classrooms[q].id) = Len(allSlots)

\* The course the loop of line 134 has just finished with, when there is one
JustFinished == pc = "course" /\ ci > 1

\* The course has fewer rows than the slots it needs
UnderScheduled(course) ==
    Cardinality(RowsOfCourse(scheduledClasses, course.id)) < SlotsNeeded(course)

\* C19: when a course finishes with fewer than slotsNeeded slots, no cell of
\* the grid is feasible for it in any suitable classroom at that moment.
C19_FallbackMaximal ==
    (JustFinished /\ UnderScheduled(sortedCourses[ci - 1])) =>
        \A k \in 1..Len(allSlots) : \A r \in 1..Len(classrooms) :
            classrooms[r].capacity >= sortedCourses[ci - 1].capacity
            => ~Feasible(sortedCourses[ci - 1], allSlots[k], classrooms[r].id)

\* A course with two suitable classrooms has just finished with some slots,
\* not all, placed by the fallback, after another course was placed
C19_Witness ==
    /\ JustFinished
    /\ UnderScheduled(sortedCourses[ci - 1])
    /\ Len(SuitableRooms(classrooms, sortedCourses[ci - 1])) = 2
    /\ \E i \in RowsOfCourse(scheduledClasses, sortedCourses[ci - 1].id) :
          placedBy[i] = "scattered"
    /\ \E i \in 1..Len(scheduledClasses) :
          scheduledClasses[i].courseId # sortedCourses[ci - 1].id

\* The cells of the rows that have the key in the field, in the order of the
\* rows
RowCells(field, key) ==
    LET rows == SelectSeq(scheduledClasses, LAMBDA r : r[field] = key)
    IN  [i \in 1..Len(rows) |-> CellOf(rows[i])]

\* The map holds, under every key, the cells of the rows of that key, once
\* each, and nothing else; every row has its key in the map
AgreesWithRows(map, field) ==
    /\ \A key \in DOMAIN map :
          /\ map[key] = RowCells(field, key)
          /\ map[key] # <<>>
          /\ NoRepeat(map[key])
    /\ \A i \in 1..Len(scheduledClasses) : scheduledClasses[i][field] \in DOMAIN map

\* C20: the three occupancy maps and the row list agree: every row is one
\* cell held once under its instructorId, once under its classroomId and once
\* under its courseId, no map holds a cell without a row, and no map holds a
\* cell twice under one key.
C20_MapsAgreeWithRows ==
    /\ AgreesWithRows(instructorAssignments, "instructorId")
    /\ AgreesWithRows(classroomAssignments, "classroomId")
    /\ AgreesWithRows(courseAssignments, "courseId")

\* Rows of both phases, of two instructors, in two classrooms
C20_Witness ==
    /\ Done
    /\ Cardinality(DOMAIN instructorAssignments) = 2
    /\ Cardinality(DOMAIN classroomAssignments) = 2
    /\ Cardinality(DOMAIN courseAssignments) = 2
    /\ \E i, j \in 1..Len(scheduledClasses) :
          placedBy[i] = "contiguous" /\ placedBy[j] = "scattered"

NextAnyOrder ==
    \/ BuildIndex
    \/ SortCourses
    \/ SkipCourse
    \/ StartCourse
    \/ TryDay
    \/ ScatterAnyOrder
    \/ Return

SpecAnyOrder == InitClosed /\ [][NextAnyOrder]_vars

\* Every step of the fallback under any order of allSlots is a step of Scatter
\* (checked under SpecAnyOrder)
ScatterRefines == [][ScatterAnyOrder => Scatter]_vars

====
